---- MODULE Spec2Model ----
(***************************************************************************)
(* StockSense chat dashboard: the analytics event store (chat_sessions,    *)
(* chat_messages, user_actions in SQLite), the keyword categorizer, and    *)
(* the Flask routes that write to the store (login, index, chat,           *)
(* clear_chat) and the routes that read it (/api/analytics/...).  Texts are TLA+ strings; substring tests, lower-casing and *)
(* slicing are computed character by character as Python computes them.    *)
(***************************************************************************)
EXTENDS Integers, Sequences, FiniteSets, TLC

VARIABLES
    chat_sessions,   \* committed rows of table chat_sessions, in rowid order
    chat_messages,   \* committed rows of table chat_messages, in rowid order
    user_actions,    \* committed rows of table user_actions, in rowid order
    now,             \* the store's clock (CURRENT_TIMESTAMP), in hours
    session,         \* per browser: the Flask session cookie, a dict
    next_uuid,       \* how many uuid4() values have been drawn
    pc,              \* per request handler: where it stands
    req,             \* per request handler: the locals of the request
    txn,             \* per request handler: chat_sessions as its open transaction sees it
    writer,          \* the handlers holding SQLite's write lock (at most one)
    resp,            \* the response the last step sent, NoResp if it sent none
    started,         \* number of login and chat requests started
    recorded,        \* history: session ids whose log_chat_message committed
    cat_input,       \* categorizer harness: the message given
    cat_result,      \* categorizer harness: what categorize_query returned
    analytics        \* the answer of the last /api/analytics request, NoView if none

store == <<chat_sessions, chat_messages, user_actions>>
vars == <<chat_sessions, chat_messages, user_actions, now, session, next_uuid,
          pc, req, txn, writer, resp, started, recorded, cat_input, cat_result, analytics>>

(***************************************************************************)
(* Bounds of the model                                                     *)
(***************************************************************************)
MaxRequests == 3     \* login and chat requests started in one behaviour
MaxUuid == 3         \* uuid4() values drawn in one behaviour
MaxNow == 1          \* clock ticks in one behaviour
MaxFrags == 3        \* fragments concatenated into a categorizer input
MaxCount == 2        \* times one long user message is stored
MaxStored == 2       \* rows of chat_messages when the analytics requests start

Workers == {"w1", "w2"}
WorkerOrder == <<"w1", "w2">>
Browsers == {"b1"}

(***************************************************************************)
(* Python str operations                                                   *)
(***************************************************************************)
Min(a, b) == IF a < b THEN a ELSE b

UpperChars == "ABCDEFGHIJKLMNOPQRSTUVWXYZ"
LowerChars == "abcdefghijklmnopqrstuvwxyz"

\* str.lower() of one character
LowerChar(c) ==
    IF \E i \in 1..Len(UpperChars) : SubSeq(UpperChars, i, i) = c
    THEN LET i == CHOOSE j \in 1..Len(UpperChars) : SubSeq(UpperChars, j, j) = c
         IN  SubSeq(LowerChars, i, i)
    ELSE c

\* str.lower()
RECURSIVE Lower(_)
Lower(s) ==
    IF Len(s) = 0 THEN ""
    ELSE IF Len(s) = 1 THEN LowerChar(s)
    ELSE LET half == Len(s) \div 2
         IN  Lower(SubSeq(s, 1, half)) \o Lower(SubSeq(s, half + 1, Len(s)))

\* needle in haystack
Contains(haystack, needle) ==
    \E i \in 0..(Len(haystack) - Len(needle)) :
        SubSeq(haystack, i + 1, i + Len(needle)) = needle

\* s[:n]
Prefix(s, n) == SubSeq(s, 1, Min(n, Len(s)))

(***************************************************************************)
(* categorize_query                                                        *)
(***************************************************************************)
inventory_keywords == {"inventory", "stock", "low stock", "reorder", "shortage", "order"}
purchase_keywords == {"purchase", "buy", "supplier", "vendor", "requisition"}
\* mutant: the last reporting keyword left out
report_keywords_short == {"report", "analytics", "data", "show"}
report_keywords == {"report", "analytics", "data", "show", "list"}

Category == {"inventory", "purchase", "reporting", "general"}

\* mutant: the message matched as typed, .lower() forgotten
message_lower_unchanged(user_message) == user_message
message_lower(user_message) == Lower(user_message)

AnyKeyword(keywords, text) == \E keyword \in keywords : Contains(text, keyword)

\* mutant: the reporting keywords tested before the purchase keywords
categorize_query_report_first(user_message) ==
    LET lowered == message_lower(user_message) IN
    IF AnyKeyword(inventory_keywords, lowered) THEN "inventory"
    ELSE IF AnyKeyword(report_keywords, lowered) THEN "reporting"
    ELSE IF AnyKeyword(purchase_keywords, lowered) THEN "purchase"
    ELSE "general"

categorize_query(user_message) ==
    LET lowered == message_lower(user_message) IN
    IF AnyKeyword(inventory_keywords, lowered) THEN "inventory"
    ELSE IF AnyKeyword(purchase_keywords, lowered) THEN "purchase"
    ELSE IF AnyKeyword(report_keywords, lowered) THEN "reporting"
    ELSE "general"

(***************************************************************************)
(* JSON values reaching the routes: a str, or something that is not a str   *)
(* (null, a number, a list), on which str methods raise.                   *)
(***************************************************************************)
Str(t) == [kind |-> "str", text |-> t]
NonStr == [kind |-> "other", text |-> ""]

(***************************************************************************)
(* The tables (init_db) and the SQL statements run against them            *)
(***************************************************************************)
SessionRow(sid, ts) == [session_id |-> sid, created_at |-> ts]

MessageRow(sid, um, br, intent, cat, offer, created, ts) ==
    [session_id |-> sid, user_message |-> um, bot_response |-> br,
     message_type |-> "chat", intent |-> intent, query_category |-> cat,
     has_requisition_offer |-> offer, requisition_created |-> created,
     timestamp |-> ts]

ActionRow(sid, type, details, ts) ==
    [session_id |-> sid, action_type |-> type, action_details |-> details,
     timestamp |-> ts]

HasSession(sessions, sid) ==
    \E i \in DOMAIN sessions : sessions[i].session_id = sid

\* INSERT OR IGNORE INTO chat_sessions (session_id) VALUES (?)
\* under the UNIQUE constraint on session_id: a conflicting row is skipped.
\* mutant: a plain INSERT, which the UNIQUE constraint refuses on conflict
InsertSessionPlain(sessions, sid, ts) ==
    IF HasSession(sessions, sid)
    THEN [error |-> "IntegrityError", rows |-> sessions]
    ELSE [error |-> "", rows |-> Append(sessions, SessionRow(sid, ts))]

\* mutant: the session insert left out
InsertSessionNever(sessions, sid, ts) == [error |-> "", rows |-> sessions]

InsertOrIgnoreSession(sessions, sid, ts) ==
    IF HasSession(sessions, sid)
    THEN [error |-> "", rows |-> sessions]
    ELSE [error |-> "", rows |-> Append(sessions, SessionRow(sid, ts))]

\* 'Would you like me to create purchase requisitions' in bot_response
\* mutant: any mention of a requisition taken for the offer
has_requisition_offer_loose(bot_response) ==
    Contains(Lower(bot_response), "requisition")

has_requisition_offer(bot_response) ==
    Contains(bot_response, "Would you like me to create purchase requisitions")

\* 'Requisition Created' in bot_response
requisition_created(bot_response) ==
    Contains(bot_response, "Requisition Created")

\* INSERT INTO chat_messages (...) VALUES (...) of log_chat_message
InsertMessage(messages, sid, user_message, bot_response, intent, ts) ==
    Append(messages,
           MessageRow(sid, user_message, bot_response, intent,
                      categorize_query(user_message),
                      has_requisition_offer(bot_response),
                      requisition_created(bot_response), ts))

\* mutant: the new row put in place of the stored ones
InsertActionOnly(actions, sid, type, details, ts) ==
    <<ActionRow(sid, type, details, ts)>>

\* INSERT INTO user_actions (session_id, action_type, action_details)
InsertAction(actions, sid, type, details, ts) ==
    Append(actions, ActionRow(sid, type, details, ts))

\* DELETE FROM chat_messages WHERE session_id = ?
\* mutant: DELETE FROM chat_messages without the WHERE
DeleteAllMessages(messages, sid) == <<>>

RECURSIVE DeleteMessages(_, _)
DeleteMessages(messages, sid) ==
    IF messages = <<>> THEN <<>>
    ELSE IF Head(messages).session_id = sid THEN DeleteMessages(Tail(messages), sid)
    ELSE <<Head(messages)>> \o DeleteMessages(Tail(messages), sid)

(***************************************************************************)
(* analytics_overview: the counters the claims read                        *)
(***************************************************************************)
\* SELECT COUNT(*) FROM chat_messages
total_queries(messages) == Len(messages)

\* SELECT COUNT(*) FROM chat_messages WHERE requisition_created = 1
\* mutant: the offers counted instead of the created requisitions
total_requisitions_offers(messages) ==
    Cardinality({i \in DOMAIN messages : messages[i].has_requisition_offer = TRUE})

total_requisitions(messages) ==
    Cardinality({i \in DOMAIN messages : messages[i].requisition_created = TRUE})

(***************************************************************************)
(* Flask session cookie (a dict), uuid4, credentials                       *)
(***************************************************************************)
EmptyDict == [k \in {} |-> ""]
DictSet(d, k, v) == (k :> v) @@ d
DictGet(d, k, default) == IF k \in DOMAIN d THEN d[k] ELSE default

\* str(uuid.uuid4()): the n-th value drawn, distinct from every other
Uuid(n) == "uuid-" \o ToString(n)

\* load_credentials(): the username:password lines of credentials.txt
Credentials == ("admin" :> "secret")

authenticate_user(username, password) ==
    username \in DOMAIN Credentials /\ Credentials[username] = password

\* mutant: the route left undecorated
login_not_required(cookie) == TRUE

\* the decorator's test: 'user' not in session -> redirect to login
login_required(cookie) == "user" \in DOMAIN cookie

(***************************************************************************)
(* Inputs                                                                  *)
(***************************************************************************)
UserTexts == {"check stock levels", ""}

BotTexts == {"Low stock detected. Would you like me to create purchase requisitions?",
             "Requisition Created for item X"}

\* request bodies of POST /api/chat: not JSON at all, or a JSON object
Body(json, has_message, message, visual) ==
    [json |-> json, has_message |-> has_message, message |-> message, visual |-> visual]

ChatBodies ==
    {Body(TRUE, TRUE, Str(t), FALSE) : t \in UserTexts}
    \cup {Body(TRUE, FALSE, Str(""), FALSE),
          Body(TRUE, TRUE, NonStr, FALSE),
          Body(TRUE, TRUE, Str("check stock levels"), TRUE),
          Body(FALSE, FALSE, Str(""), FALSE)}

\* what requests.post(WEBHOOK_URL, ...) does: raise, or answer with a status
WebhookOutcomes ==
    {[raises |-> TRUE, status |-> 0, message |-> Str("")],
     [raises |-> FALSE, status |-> 500, message |-> Str("")]}
    \cup {[raises |-> FALSE, status |-> 200, message |-> Str(t)] : t \in BotTexts}

LoginForms == {<<"admin", "secret">>, <<"admin", "wrong">>}

(***************************************************************************)
(* Request handlers                                                        *)
(***************************************************************************)
NoReq ==
    [route |-> "", browser |-> "", cookie |-> EmptyDict, user_message |-> Str(""),
     session_id |-> "", is_visual |-> FALSE, bot_response |-> Str(""),
     action_type |-> "", action_details |-> "", invalid |-> FALSE,
     sid_new |-> FALSE, raced |-> FALSE, writes |-> 0]

NoResp ==
    [route |-> "", status |-> 0, error |-> "", session_id |-> "", deleted |-> 0]

NoTxn == [sessions |-> <<>>]

\* the four counters of analytics_overview, -1 while not yet fetched
NoStats ==
    [total_queries |-> -1, queries_today |-> -1, total_requisitions |-> -1,
     active_sessions |-> -1]

\* route: the analytics route asked for; step: how many statements of an
\* overview still in progress have run (0: none in progress); at: the clock at
\* its last statement; data: the list it returned; stats: the overview counters
NoView == [route |-> "", step |-> 0, at |-> 0, data |-> <<>>, stats |-> NoStats]

Response(r, status, error, deleted) ==
    [route |-> r.route, status |-> status, error |-> error,
     session_id |-> r.session_id, deleted |-> deleted]

\* the request r of handler w ends with this response; the login route's
\* response carries the session cookie as the request left it
Finish(w, r, status, error, deleted) ==
    /\ resp' = Response(r, status, error, deleted)
    /\ pc' = [pc EXCEPT ![w] = "idle"]
    /\ req' = [req EXCEPT ![w] = NoReq]
    /\ session' = IF r.route = "login"
                  THEN [session EXCEPT ![r.browser] = r.cookie]
                  ELSE session

\* the handler threads are interchangeable: a new request goes to the first idle one
TakesRequest(w) ==
    \E i \in DOMAIN WorkerOrder :
        /\ WorkerOrder[i] = w
        /\ pc[w] = "idle"
        /\ \A j \in 1..(i - 1) : pc[WorkerOrder[j]] # "idle"

\* chat(): request.json.get('message', '')
\* mutant: request.json.get('message') without the default
request_message_no_default(body) == IF body.has_message THEN body.message ELSE NonStr

request_message(body) == IF body.has_message THEN body.message ELSE Str("")

\* the exchange lacks a session id, or its message is missing or empty
InvalidInput(body, cookie) ==
    \/ "session_id" \notin DOMAIN cookie
    \/ ~body.has_message
    \/ body.message = Str("")

Init ==
    /\ chat_sessions = <<>>
    /\ chat_messages = <<>>
    /\ user_actions = <<>>
    /\ now = 0
    /\ session = [b \in Browsers |-> EmptyDict]
    /\ next_uuid = 0
    /\ pc = [w \in Workers |-> "idle"]
    /\ req = [w \in Workers |-> NoReq]
    /\ txn = [w \in Workers |-> NoTxn]
    /\ writer = {}
    /\ resp = NoResp
    /\ started = 0
    /\ recorded = {}
    /\ cat_input = ""
    /\ cat_result = ""
    /\ analytics = NoView

\* time passes on the store's clock
Tick ==
    /\ now < MaxNow
    /\ now' = now + 1
    /\ resp' = NoResp
    /\ UNCHANGED <<chat_sessions, chat_messages, user_actions, session, next_uuid,
                   pc, req, txn, writer, started, recorded, cat_input, cat_result, analytics>>

\* a route behind @login_required asked for without 'user' in the session
Redirected(w, b, route) ==
    /\ TakesRequest(w)
    /\ ~login_required(session[b])
    /\ resp' = [NoResp EXCEPT !.route = route, !.status = 302]
    /\ UNCHANGED <<chat_sessions, chat_messages, user_actions, now, session, next_uuid,
                   pc, req, txn, writer, started, recorded, cat_input, cat_result, analytics>>

\* POST /login
Login(w, b, form) ==
    LET username == form[1]
        password == form[2]
        ok == authenticate_user(username, password)
        has_sid == "session_id" \in DOMAIN session[b]
    IN
    /\ TakesRequest(w)
    /\ "user" \notin DOMAIN session[b]
    /\ started < MaxRequests
    /\ started' = started + 1
    /\ IF ok
       THEN /\ has_sid \/ next_uuid < MaxUuid
            /\ next_uuid' = IF has_sid THEN next_uuid ELSE next_uuid + 1
            /\ req' = [req EXCEPT ![w] =
                  [NoReq EXCEPT !.route = "login", !.browser = b,
                      !.cookie = DictSet(session[b], "user", username),
                      !.session_id = DictGet(session[b], "session_id", Uuid(next_uuid + 1)),
                      !.action_type = "user_login",
                      !.action_details = "User: " \o username]]
       ELSE /\ next_uuid' = next_uuid
            /\ req' = [req EXCEPT ![w] =
                  [NoReq EXCEPT !.route = "login", !.browser = b,
                      !.cookie = session[b],
                      !.session_id = "anonymous",
                      !.action_type = "failed_login",
                      !.action_details = "Attempted username: " \o username]]
    /\ pc' = [pc EXCEPT ![w] = "log_action"]
    /\ resp' = NoResp
    /\ UNCHANGED <<chat_sessions, chat_messages, user_actions, now, session,
                   txn, writer, recorded, cat_input, cat_result, analytics>>

\* GET /
Index(w, b) ==
    /\ TakesRequest(w)
    /\ login_required(session[b])
    /\ IF "session_id" \notin DOMAIN session[b]
       THEN /\ next_uuid < MaxUuid
            /\ next_uuid' = next_uuid + 1
            /\ session' = [session EXCEPT ![b] =
                              DictSet(session[b], "session_id", Uuid(next_uuid + 1))]
       ELSE UNCHANGED <<next_uuid, session>>
    /\ resp' = [NoResp EXCEPT !.route = "index", !.status = 200]
    /\ UNCHANGED <<chat_sessions, chat_messages, user_actions, now, pc, req, txn,
                   writer, started, recorded, cat_input, cat_result, analytics>>

\* whether `from visual import process_visual_response` succeeded
VISUAL_PROCESSING_ENABLED == TRUE

\* POST /api/chat, up to the webhook call
StartChat(w, b, body) ==
    LET has_sid == "session_id" \in DOMAIN session[b]
        r == [NoReq EXCEPT !.route = "chat", !.browser = b, !.cookie = session[b],
                 !.user_message = request_message(body),
                 !.session_id = DictGet(session[b], "session_id", Uuid(next_uuid + 1)),
                 !.is_visual = body.visual,
                 !.invalid = InvalidInput(body, session[b])]
    IN
    /\ TakesRequest(w)
    /\ login_required(session[b])
    /\ started < MaxRequests
    /\ started' = started + 1
    /\ IF ~body.json
       THEN \* request.json raises: caught by the route's except
            /\ Finish(w, [r EXCEPT !.session_id = ""], 500, "BadRequest", 0)
            /\ UNCHANGED next_uuid
       ELSE /\ has_sid \/ next_uuid < MaxUuid
            /\ next_uuid' = IF has_sid THEN next_uuid ELSE next_uuid + 1
            /\ req' = [req EXCEPT ![w] = r]
            /\ pc' = [pc EXCEPT ![w] = "webhook"]
            /\ resp' = NoResp
            /\ UNCHANGED session
    /\ UNCHANGED <<chat_sessions, chat_messages, user_actions, now, txn, writer,
                   recorded, cat_input, cat_result, analytics>>

\* the chat route's normalized_message
normalized_message(outcome) ==
    IF outcome.status = 200
    THEN outcome.message
    ELSE Str("Sorry, an error occurred while contacting the workflow. Status: "
             \o ToString(outcome.status))

\* log_chat_message is entered: note whether the session row is there already
\* (is_visual is not read again)
EnterLog(r) ==
    [r EXCEPT !.sid_new = ~HasSession(chat_sessions, r.session_id), !.is_visual = FALSE]

\* requests.post(WEBHOOK_URL, json=payload, timeout=120) and the normalisation
Webhook(w, outcome) ==
    /\ pc[w] = "webhook"
    /\ IF outcome.raises
       THEN Finish(w, req[w], 500, "WebhookError", 0)
       ELSE LET r == [req[w] EXCEPT !.bot_response = normalized_message(outcome)] IN
            /\ IF r.is_visual /\ VISUAL_PROCESSING_ENABLED
               THEN /\ pc' = [pc EXCEPT ![w] = "visual"]
                    /\ req' = [req EXCEPT ![w] = r]
               ELSE /\ pc' = [pc EXCEPT ![w] = "log_session"]
                    /\ req' = [req EXCEPT ![w] = EnterLog(r)]
            /\ resp' = NoResp
            /\ UNCHANGED session
    /\ UNCHANGED <<chat_sessions, chat_messages, user_actions, now, next_uuid, txn,
                   writer, started, recorded, cat_input, cat_result, analytics>>

\* mutant: process_visual_response called outside the try, so that what it
\* raises ends the request
VisualUncaught(w, raises) ==
    /\ pc[w] = "visual"
    /\ IF raises
       THEN Finish(w, req[w], 500, "VisualError", 0)
       ELSE /\ pc' = [pc EXCEPT ![w] = "log_session"]
            /\ req' = [req EXCEPT ![w] = EnterLog(req[w])]
            /\ resp' = NoResp
            /\ UNCHANGED session
    /\ UNCHANGED <<chat_sessions, chat_messages, user_actions, now, next_uuid,
                   txn, writer, started, recorded, cat_input, cat_result, analytics>>

\* process_visual_response(bot_response, table_data): returns, or raises and
\* the route catches it
Visual(w, raises) ==
    /\ pc[w] = "visual"
    /\ pc' = [pc EXCEPT ![w] = "log_session"]
    /\ req' = [req EXCEPT ![w] = EnterLog(req[w])]
    /\ resp' = NoResp
    /\ UNCHANGED <<chat_sessions, chat_messages, user_actions, now, session, next_uuid,
                   txn, writer, started, recorded, cat_input, cat_result, analytics>>

\* what the other connections see of a table while a transaction that has
\* changed it is open: sqlite3's implicit transaction keeps the change private
\* mutant: the connection left open, its lock not given up
StillHeld(holders, w) == holders

\* conn.commit(); conn.close(), or the connection dropped by an exception:
\* the write lock is given up
Released(holders, w) == holders \ {w}

\* mutant: a connection in autocommit mode
VisibleAtOnce(committed, changed) == changed

VisibleBeforeCommit(committed, changed) == committed

\* log_chat_message: connect, INSERT OR IGNORE INTO chat_sessions
LogChatInsertSession(w) ==
    LET r == req[w]
        ins == InsertOrIgnoreSession(chat_sessions, r.session_id, now)
    IN
    /\ pc[w] = "log_session"
    /\ writer = {}
    /\ IF ins.error # ""
       THEN /\ Finish(w, r, 500, ins.error, 0)
            /\ UNCHANGED <<chat_sessions, txn, writer>>
       ELSE /\ txn' = [txn EXCEPT ![w] = [sessions |-> ins.rows]]
            /\ chat_sessions' = VisibleBeforeCommit(chat_sessions, ins.rows)
            /\ writer' = {w}
            /\ pc' = [pc EXCEPT ![w] = "log_message"]
            /\ req' = [req EXCEPT ![w] =
                  [r EXCEPT !.raced = r.sid_new /\ HasSession(chat_sessions, r.session_id)]]
            /\ resp' = NoResp
            /\ UNCHANGED session
    /\ UNCHANGED <<chat_messages, user_actions, now, next_uuid, started, recorded,
                   cat_input, cat_result, analytics>>

\* a statement that needs the write lock while another connection holds it:
\* sqlite3 gives up after its timeout with "database is locked"
LogBusy(w) ==
    /\ pc[w] \in {"log_session", "log_action"}
    /\ writer # {}
    /\ Finish(w, req[w], 500, "OperationalError", 0)
    /\ UNCHANGED <<chat_sessions, chat_messages, user_actions, now, next_uuid, txn,
                   writer, started, recorded, cat_input, cat_result, analytics>>

\* log_chat_message after the session insert: categorize_query, the two flags,
\* INSERT INTO chat_messages, conn.commit(), conn.close(); then the route goes
\* on to log_user_action(session_id, 'message_sent', f"Query: {user_message[:100]}...").
\* An exception leaves the function without commit: the connection is dropped
\* and its transaction rolled back, and the route's except answers 500.
LogChatInsertMessage(w, fault) ==
    LET r == req[w]
        error == IF r.user_message.kind # "str" THEN "AttributeError"
                 ELSE IF r.bot_response.kind # "str" THEN "TypeError"
                 ELSE IF fault THEN "OperationalError"
                 ELSE ""
    IN
    /\ pc[w] = "log_message"
    /\ txn' = [txn EXCEPT ![w] = NoTxn]
    /\ writer' = Released(writer, w)
    /\ IF error # ""
       THEN /\ Finish(w, r, 500, error, 0)
            /\ UNCHANGED <<chat_sessions, chat_messages, recorded>>
       ELSE /\ chat_sessions' = txn[w].sessions
            /\ chat_messages' =
                  InsertMessage(chat_messages, r.session_id, r.user_message.text,
                                r.bot_response.text, "normal_query", now)
            /\ recorded' = recorded \cup {r.session_id}
            /\ req' = [req EXCEPT ![w] =
                  [r EXCEPT !.writes = r.writes + 1,
                            !.action_type = "message_sent",
                            !.action_details =
                                "Query: " \o Prefix(r.user_message.text, 100) \o "..."]]
            /\ pc' = [pc EXCEPT ![w] = "log_action"]
            /\ resp' = NoResp
            /\ UNCHANGED session
    /\ UNCHANGED <<user_actions, now, next_uuid, started, cat_input, cat_result, analytics>>

\* log_user_action: connect, INSERT INTO user_actions, commit, close; then the
\* route returns (chat: the JSON answer; login: a redirect or the form again)
LogUserAction(w) ==
    LET r == req[w]
        status == IF r.action_type = "user_login" THEN 302 ELSE 200
    IN
    /\ pc[w] = "log_action"
    /\ writer = {}
    /\ user_actions' = InsertAction(user_actions, r.session_id, r.action_type,
                                    r.action_details, now)
    /\ Finish(w, [r EXCEPT !.writes = r.writes + 1], status, "", 0)
    /\ UNCHANGED <<chat_sessions, chat_messages, now, next_uuid, txn, writer,
                   started, recorded, cat_input, cat_result, analytics>>

\* POST /api/chat/clear
ClearChat(w, b) ==
    LET sid == DictGet(session[b], "session_id", "")
        r == [NoReq EXCEPT !.route = "clear", !.browser = b, !.cookie = session[b],
                           !.session_id = sid]
        left == DeleteMessages(chat_messages, sid)
    IN
    /\ TakesRequest(w)
    /\ login_required(session[b])
    /\ IF "session_id" \notin DOMAIN session[b]
       THEN \* the view returns None: Flask answers 500
            /\ Finish(w, r, 500, "TypeError", 0)
            /\ UNCHANGED chat_messages
       ELSE IF writer # {}
       THEN /\ Finish(w, r, 500, "OperationalError", 0)
            /\ UNCHANGED chat_messages
       ELSE /\ chat_messages' = left
            /\ Finish(w, r, 200, "", Len(chat_messages) - Len(left))
    /\ UNCHANGED <<chat_sessions, user_actions, now, next_uuid, txn, writer,
                   started, recorded, cat_input, cat_result, analytics>>

ProtectedRoutes == {"index", "chat", "clear"}

Next ==
    \/ \E w \in Workers, b \in Browsers :
          \/ \E route \in ProtectedRoutes : Redirected(w, b, route)
          \/ \E form \in LoginForms : Login(w, b, form)
          \/ Index(w, b)
          \/ \E body \in ChatBodies : StartChat(w, b, body)
          \/ ClearChat(w, b)
    \/ \E w \in Workers :
          \/ \E outcome \in WebhookOutcomes : Webhook(w, outcome)
          \/ \E raises \in BOOLEAN : Visual(w, raises)
          \/ LogChatInsertSession(w)
          \/ LogBusy(w)
          \/ \E fault \in BOOLEAN : LogChatInsertMessage(w, fault)
          \/ LogUserAction(w)

Spec == Init /\ [][Next]_vars

\* the same with the store's clock advancing
SpecClock == Init /\ [][Next \/ Tick]_vars

(***************************************************************************)
(* The categorizer on its own: categorize_query applied to one message     *)
(***************************************************************************)
Frags == {"Show me the ", "purchase", " report", "STOCK", "Inventory", "re",
          "order", "Buy", " list", "hello "}

\* the concatenations of at most n fragments
RECURSIVE Concats(_)
Concats(n) ==
    IF n = 0 THEN {""}
    ELSE LET shorter == Concats(n - 1) IN
         shorter \cup {s \o f : s \in shorter, f \in Frags}

InitCat ==
    /\ chat_sessions = <<>>
    /\ chat_messages = <<>>
    /\ user_actions = <<>>
    /\ now = 0
    /\ session = [b \in Browsers |-> EmptyDict]
    /\ next_uuid = 0
    /\ pc = [w \in Workers |-> "idle"]
    /\ req = [w \in Workers |-> NoReq]
    /\ txn = [w \in Workers |-> NoTxn]
    /\ writer = {}
    /\ resp = NoResp
    /\ started = 0
    /\ recorded = {}
    /\ cat_input \in Concats(MaxFrags)
    /\ cat_result = ""
    /\ analytics = NoView

Categorize ==
    /\ cat_result = ""
    /\ cat_result' = categorize_query(cat_input)
    /\ UNCHANGED <<chat_sessions, chat_messages, user_actions, now, session, next_uuid,
                   pc, req, txn, writer, resp, started, recorded, cat_input,
                   analytics>>

NextCat == Categorize

SpecCat == InitCat /\ [][NextCat]_vars

(***************************************************************************)
(* GET /api/analytics/top_queries on its own                               *)
(***************************************************************************)
\* COUNT(*) of the group of one user_message under GROUP BY user_message
GroupCount(messages, text) ==
    Cardinality({i \in DOMAIN messages : messages[i].user_message = text})

\* the groups of GROUP BY user_message, in the order the scan yields them
Groups(messages, scan) ==
    LET Stored(text) == GroupCount(messages, text) > 0 IN SelectSeq(scan, Stored)

Without(seq, i) == SubSeq(seq, 1, i - 1) \o SubSeq(seq, i + 1, Len(seq))

\* ORDER BY count DESC: groups of equal count stay in the order they came in
RECURSIVE OrderByCountDesc(_, _)
OrderByCountDesc(groups, messages) ==
    IF groups = <<>> THEN <<>>
    ELSE LET best == CHOOSE i \in DOMAIN groups :
                        /\ \A j \in DOMAIN groups :
                              GroupCount(messages, groups[j]) <= GroupCount(messages, groups[i])
                        /\ \A j \in 1..(i - 1) :
                              GroupCount(messages, groups[j]) < GroupCount(messages, groups[i])
         IN  <<groups[best]>> \o OrderByCountDesc(Without(groups, best), messages)

\* LIMIT 10
Limit(rows) == SubSeq(rows, 1, Min(10, Len(rows)))

\* mutant: the cut made at 100 characters or more
query_text_from_100(user_message) ==
    IF Len(user_message) >= 100 THEN Prefix(user_message, 100) \o "..." ELSE user_message

\* row[0][:100] + '...' if len(row[0]) > 100 else row[0]
query_text(user_message) ==
    IF Len(user_message) > 100 THEN Prefix(user_message, 100) \o "..." ELSE user_message

\* the list top_queries() returns; scan is the order in which SQLite meets the
\* groups, which decides the order among groups of equal count
top_queries(messages, scan) ==
    LET data == Limit(OrderByCountDesc(Groups(messages, scan), messages)) IN
    [i \in DOMAIN data |->
        [query |-> query_text(data[i]), count |-> GroupCount(messages, data[i])]]

RECURSIVE Repeat(_, _)
Repeat(text, n) == IF n = 0 THEN "" ELSE text \o Repeat(text, n - 1)

Reverse(seq) == [i \in DOMAIN seq |-> seq[Len(seq) + 1 - i]]

\* stored user messages: eight short ones, one of exactly 100 characters, one
\* of 101 and one of 130
LongTexts == <<Repeat("how many? ", 10), Repeat("how many?!", 10) \o "x",
               Repeat("which item is low", 7) \o " in store 1">>

ShortTexts == <<"", "hi", "check stock levels", "buy bolts", "show report",
                "list vendors", "Hi", "hi ">>

QueryTexts == LongTexts \o ShortTexts

\* how often each text is stored: the long ones up to MaxCount times, and the
\* first few of the short ones once
Tallies ==
    {long \o [i \in DOMAIN ShortTexts |-> IF i <= short THEN 1 ELSE 0] :
         long \in [DOMAIN LongTexts -> 0..MaxCount], short \in 0..Len(ShortTexts)}

\* chat_messages after log_chat_message stored QueryTexts[i] tally[i] times:
\* in each round every text still due is stored once more
RECURSIVE Stored(_, _)
Stored(tally, round) ==
    IF round = 0 THEN <<>>
    ELSE LET Due(i) == tally[i] >= round
             due == SelectSeq([i \in DOMAIN QueryTexts |-> i], Due)
             rows == [k \in DOMAIN due |->
                         InsertMessage(<<>>, "s1", QueryTexts[due[k]], "ok",
                                       "normal_query", 0)[1]]
         IN  Stored(tally, round - 1) \o rows

InitTop ==
    /\ chat_sessions = <<SessionRow("s1", 0)>>
    /\ chat_messages \in {Stored(tally, MaxCount) : tally \in Tallies}
    /\ user_actions = <<>>
    /\ now = 0
    /\ session = [b \in Browsers |-> DictSet(EmptyDict, "user", "admin")]
    /\ next_uuid = 0
    /\ pc = [w \in Workers |-> "idle"]
    /\ req = [w \in Workers |-> NoReq]
    /\ txn = [w \in Workers |-> NoTxn]
    /\ writer = {}
    /\ resp = NoResp
    /\ started = 0
    /\ recorded = {"s1"}
    /\ cat_input = ""
    /\ cat_result = ""
    /\ analytics = NoView

\* GET /api/analytics/top_queries
TopQueries(b, reversed) ==
    /\ login_required(session[b])
    /\ analytics' = [NoView EXCEPT
                        !.route = "top_queries", !.at = now,
                        !.data = top_queries(chat_messages,
                                             IF reversed THEN Reverse(QueryTexts)
                                             ELSE QueryTexts)]
    /\ UNCHANGED <<chat_sessions, chat_messages, user_actions, now, session, next_uuid,
                   pc, req, txn, writer, resp, started, recorded, cat_input, cat_result>>

NextTop == \E b \in Browsers, reversed \in BOOLEAN : TopQueries(b, reversed)

SpecTop == InitTop /\ [][NextTop]_vars

(***************************************************************************)
(* GET /api/analytics/overview and /api/analytics/daily_activity, beside a *)
(* chat request that is logging, a clear_chat and the clock                *)
(***************************************************************************)
\* DATE(timestamp): the calendar day (UTC) of a time in hours
DATE(ts) == ts \div 24

\* SELECT COUNT(*) FROM chat_messages WHERE DATE(timestamp) = DATE('now')
queries_today(messages, at) ==
    Cardinality({i \in DOMAIN messages : DATE(messages[i].timestamp) = DATE(at)})

\* mutant: COUNT(session_id) without DISTINCT
active_sessions_rows(messages, at) ==
    Cardinality({i \in DOMAIN messages : messages[i].timestamp > at - 24})

\* SELECT COUNT(DISTINCT session_id) FROM chat_messages
\* WHERE timestamp > datetime('now', '-24 hours')
active_sessions(messages, at) ==
    Cardinality({messages[i].session_id :
                    i \in {j \in DOMAIN messages : messages[j].timestamp > at - 24}})

\* mutant: the WHERE of daily_activity left out
daily_window_all(messages, at) == DOMAIN messages

\* WHERE timestamp > datetime('now', '-30 days')
daily_window(messages, at) ==
    {i \in DOMAIN messages : messages[i].timestamp > at - 30 * 24}

\* ORDER BY date
RECURSIVE Ascending(_)
Ascending(dates) ==
    IF dates = {} THEN <<>>
    ELSE LET least == CHOOSE d \in dates : \A e \in dates : d <= e
         IN  <<least>> \o Ascending(dates \ {least})

\* SELECT DATE(timestamp) as date, COUNT(*) as count ... GROUP BY DATE(timestamp)
daily_activity(messages, at) ==
    LET rows == daily_window(messages, at)
        dates == Ascending({DATE(messages[i].timestamp) : i \in rows})
    IN  [k \in DOMAIN dates |->
            [date |-> dates[k],
             count |-> Cardinality({i \in rows : DATE(messages[i].timestamp) = dates[k]})]]

\* timestamps of the rows stored before the clock reads 0: 30 days and an hour
\* ago, 30 days ago, an hour less, 24 hours ago, an hour ago, now
TimePoints == {-721, -720, -719, -24, -1, 0}

\* the stored exchanges: session "s1" was offered requisitions, "s2" had one created
Events ==
    {InsertMessage(<<>>, sid, "check stock levels",
                   IF sid = "s1"
                   THEN "Low stock detected. Would you like me to create purchase requisitions?"
                   ELSE "Requisition Created for item X",
                   "normal_query", ts)[1] :
        sid \in {"s1", "s2"}, ts \in TimePoints}

\* what chat_messages can hold after at most n log_chat_message calls
RECURSIVE Histories(_)
Histories(n) ==
    IF n = 0 THEN {<<>>}
    ELSE LET shorter == Histories(n - 1) IN
         shorter \cup
         {Append(p[1], p[2]) : p \in
             {q \in shorter \X Events :
                 q[1] = <<>> \/ q[1][Len(q[1])].timestamp <= q[2].timestamp}}

\* the session rows those calls left, after those of "s3", whose messages
\* have been cleared
SessionsOf(messages) ==
    LET Seen(sid) == sid = "s3" \/ \E i \in DOMAIN messages : messages[i].session_id = sid
        sids == SelectSeq(<<"s3", "s1", "s2">>, Seen)
    IN  [k \in DOMAIN sids |-> SessionRow(sids[k], -721)]

\* a chat request of session "s1" has the webhook's answer and is about to log
Logging ==
    [NoReq EXCEPT !.route = "chat", !.browser = "b1",
        !.cookie = DictSet(DictSet(EmptyDict, "user", "admin"), "session_id", "s1"),
        !.user_message = Str("check stock levels"),
        !.session_id = "s1",
        !.bot_response = Str("Requisition Created for item X")]

InitAnalytics ==
    /\ chat_messages \in Histories(MaxStored)
    /\ chat_sessions = SessionsOf(chat_messages)
    /\ user_actions = <<ActionRow("anonymous", "failed_login", "Attempted username: admin", -1)>>
    /\ now = 0
    /\ session = [b \in Browsers |-> Logging.cookie]
    /\ next_uuid = 0
    /\ pc = [w \in Workers |-> IF w = WorkerOrder[1] THEN "log_session" ELSE "idle"]
    /\ req = [w \in Workers |-> IF w = WorkerOrder[1] THEN EnterLog(Logging) ELSE NoReq]
    /\ txn = [w \in Workers |-> NoTxn]
    /\ writer = {}
    /\ resp = NoResp
    /\ started = MaxRequests
    /\ recorded = {chat_sessions[i].session_id : i \in DOMAIN chat_sessions}
    /\ cat_input = ""
    /\ cat_result = ""
    /\ analytics = NoView

\* analytics_overview, first statement: SELECT COUNT(*) FROM chat_messages
OverviewTotalQueries(b) ==
    /\ login_required(session[b])
    /\ analytics.step = 0
    /\ analytics' = [NoView EXCEPT
                        !.route = "overview", !.step = 1, !.at = now,
                        !.stats.total_queries = total_queries(chat_messages)]
    /\ resp' = NoResp
    /\ UNCHANGED <<chat_sessions, chat_messages, user_actions, now, session, next_uuid,
                   pc, req, txn, writer, started, recorded, cat_input, cat_result>>

\* second statement: ... WHERE DATE(timestamp) = DATE('now')
OverviewQueriesToday ==
    /\ analytics.route = "overview"
    /\ analytics.step = 1
    /\ analytics' = [analytics EXCEPT
                        !.step = 2, !.at = now,
                        !.stats.queries_today = queries_today(chat_messages, now)]
    /\ resp' = NoResp
    /\ UNCHANGED <<chat_sessions, chat_messages, user_actions, now, session, next_uuid,
                   pc, req, txn, writer, started, recorded, cat_input, cat_result>>

\* third statement: ... WHERE requisition_created = 1
OverviewTotalRequisitions ==
    /\ analytics.route = "overview"
    /\ analytics.step = 2
    /\ analytics' = [analytics EXCEPT
                        !.step = 3, !.at = now,
                        !.stats.total_requisitions = total_requisitions(chat_messages)]
    /\ resp' = NoResp
    /\ UNCHANGED <<chat_sessions, chat_messages, user_actions, now, session, next_uuid,
                   pc, req, txn, writer, started, recorded, cat_input, cat_result>>

\* fourth statement, conn.close() and the JSON answer
OverviewActiveSessions ==
    /\ analytics.route = "overview"
    /\ analytics.step = 3
    /\ analytics' = [analytics EXCEPT
                        !.step = 0, !.at = now,
                        !.stats.active_sessions = active_sessions(chat_messages, now)]
    /\ resp' = NoResp
    /\ UNCHANGED <<chat_sessions, chat_messages, user_actions, now, session, next_uuid,
                   pc, req, txn, writer, started, recorded, cat_input, cat_result>>

\* GET /api/analytics/daily_activity: one statement
DailyActivity(b) ==
    /\ login_required(session[b])
    /\ analytics.step = 0
    /\ analytics' = [NoView EXCEPT
                        !.route = "daily_activity", !.at = now,
                        !.data = daily_activity(chat_messages, now)]
    /\ resp' = NoResp
    /\ UNCHANGED <<chat_sessions, chat_messages, user_actions, now, session, next_uuid,
                   pc, req, txn, writer, started, recorded, cat_input, cat_result>>

NextAnalytics ==
    \/ \E b \in Browsers : OverviewTotalQueries(b)
    \/ OverviewQueriesToday
    \/ OverviewTotalRequisitions
    \/ OverviewActiveSessions
    \/ \E b \in Browsers : DailyActivity(b)
    \/ \E w \in Workers :
          \/ LogChatInsertSession(w)
          \/ \E fault \in BOOLEAN : LogChatInsertMessage(w, fault)
          \/ LogUserAction(w)
    \/ \E w \in Workers, b \in Browsers : ClearChat(w, b)
    \/ Tick

SpecAnalytics == InitAnalytics /\ [][NextAnalytics]_vars

(***************************************************************************)
(* visual.py: process_visual_response on its own.  A Python value is kept  *)
(* as what the code asks of it: its truth value, whether len() and         *)
(* iteration accept it, and whether its items accept item assignment.      *)
(***************************************************************************)
\* the keys of required_sections
required_sections ==
    {"kpis", "summary", "recommendations", "alerts", "charts", "trends",
     "decision_support"}

\* a value under 'kpis' or 'charts': a non-empty list of dicts; an empty list;
\* a falsy value that is not iterable (None, 0, false); a truthy value that is
\* not iterable (a number, true); an iterable whose items are not dicts (a
\* str, a list of numbers or of strs, a dict, whose iteration gives its keys)
ValueShapes == {"dicts", "empty", "null", "number", "strings"}

\* not kpi_data.get('charts')
Falsy(value) == value \in {"empty", "null"}

\* for item in value: if 'key' not in item: item['key'] = ...
\* raises TypeError when value is not iterable or an item is not a dict
LoopRaises(value) == value \in {"null", "number", "strings"}

\* a dict whose keys are sections: the shape of 'kpis' and 'charts', the text
\* of 'summary', and some value under every other key
Dict(keys, kpis, summary, charts) ==
    [k \in keys |-> IF k = "kpis" THEN kpis
                    ELSE IF k = "charts" THEN charts
                    ELSE IF k = "summary" THEN summary
                    ELSE "any"]

NoItems == Dict({}, "empty", "any", "empty")

\* what json.loads returns for the model's reply when it is a JSON object
JsonDicts ==
    {Dict(keys, kpis, "any", charts) :
        keys \in SUBSET required_sections, kpis \in ValueShapes, charts \in ValueShapes}

\* what json.loads returns: an object, or a list, a str, a number or null
JsonValues ==
    {[type |-> "dict", items |-> d] : d \in JsonDicts}
        \cup {[type |-> t, items |-> NoItems] : t \in {"list", "str", "number", "null"}}

\* generate_content raises (or response.text does); the reply is not JSON;
\* the reply is JSON
AiOutcomes ==
    {[outcome |-> o, json |-> [type |-> "null", items |-> NoItems]] :
        o \in {"raises", "not_json"}}
        \cup {[outcome |-> "json", json |-> j] : j \in JsonValues}

\* table_data: None or []; a non-empty list of dicts; a truthy value with a
\* len() whose first item is not a dict; a truthy value without a len()
TableShapes == {"none", "rows", "scalars", "number"}

\* a call returns a value or raises an Exception
Returns(value) == [raised |-> FALSE, value |-> value]
Raises == [raised |-> TRUE, value |-> NoItems]

\* _analyze_data_patterns(table_data): len(table_data), table_data[0].keys()
_analyze_data_patterns(table_data) ==
    [raised |-> table_data \in {"scalars", "number"}]

\* _create_default_interactive_charts(table_data): three charts when
\* table_data and len(table_data) > 0, none otherwise
_create_default_interactive_charts(table_data) ==
    [raised |-> table_data = "number",
     value |-> IF table_data \in {"rows", "scalars"} THEN "dicts" ELSE "empty"]

\* _create_interactive_fallback(bot_response, table_data)
_create_interactive_fallback(bot_response, table_data) ==
    LET fallback_data == Dict(required_sections, "dicts", "operational", "empty")
        charts == _create_default_interactive_charts(table_data)
    IN  IF table_data = "none" THEN Returns(fallback_data)
        ELSE IF table_data = "number" \/ charts.raised THEN Raises
        ELSE Returns([fallback_data EXCEPT !["charts"] = charts.value])

\* mutant: no section is added to the reply
sections_as_replied(kpi_data) == kpi_data

\* for section, default_value in required_sections.items():
\*     if section not in kpi_data: kpi_data[section] = default_value
with_required_sections(kpi_data) ==
    [k \in DOMAIN kpi_data \cup required_sections |->
        IF k \in DOMAIN kpi_data THEN kpi_data[k]
        ELSE Dict(required_sections, "empty", "generated", "empty")[k]]

\* kpi_data.get(key, [])
Get(kpi_data, key) == IF key \in DOMAIN kpi_data THEN kpi_data[key] ELSE "empty"

\* _enhance_with_interactivity(kpi_data, table_data): on a value that is not a
\* dict, `section not in kpi_data`, the item assignment or .get raises
_enhance_with_interactivity(kpi_data, table_data) ==
    IF kpi_data.type # "dict" THEN Raises
    ELSE LET filled == with_required_sections(kpi_data.items)
             defaults == _create_default_interactive_charts(table_data)
             charts == IF Falsy(Get(filled, "charts")) THEN defaults.value
                       ELSE Get(filled, "charts")
         IN  IF LoopRaises(Get(filled, "kpis")) THEN Raises
             ELSE IF Falsy(Get(filled, "charts")) /\ defaults.raised THEN Raises
             ELSE IF LoopRaises(charts) THEN Raises
             ELSE Returns([k \in DOMAIN filled \cup
                                 (IF Falsy(Get(filled, "charts")) THEN {"charts"} ELSE {}) |->
                              IF k = "charts" THEN charts ELSE filled[k]])

\* extract_interactive_insights(bot_response, table_data): the analysis and
\* the prompt are built outside the try; the call of the model, json.loads and
\* _enhance_with_interactivity are inside it, and its except returns the
\* fallback
extract_interactive_insights(bot_response, table_data, ai) ==
    IF table_data # "none" /\ _analyze_data_patterns(table_data).raised THEN Raises
    ELSE LET tried == IF ai.outcome = "json"
                      THEN _enhance_with_interactivity(ai.json, table_data)
                      ELSE Raises
         IN  IF tried.raised
             THEN _create_interactive_fallback(bot_response, table_data)
             ELSE tried

\* process_visual_response(bot_response, table_data); key is GEMINI_API_KEY
\* being set, constructed is InteractiveKPIProcessor(GEMINI_API_KEY) returning
process_visual_response(key, constructed, bot_response, table_data, ai) ==
    IF ~key
    THEN Returns(Dict(required_sections, "dicts", "unavailable", "empty"))
    ELSE LET insights == IF constructed
                         THEN extract_interactive_insights(bot_response, table_data, ai)
                         ELSE Raises
         IN  IF insights.raised
             THEN Returns(Dict(required_sections, "dicts", "limited", "empty"))
             ELSE insights

\* the calls of process_visual_response
VisualCalls ==
    [key : BOOLEAN, constructed : BOOLEAN, bot_response : BotTexts,
     table_data : TableShapes, ai : AiOutcomes]

InitVisual ==
    /\ chat_sessions = <<>>
    /\ chat_messages = <<>>
    /\ user_actions = <<>>
    /\ now = 0
    /\ session = [b \in Browsers |-> EmptyDict]
    /\ next_uuid = 0
    /\ pc = [w \in Workers |-> "idle"]
    /\ req = [w \in Workers |-> NoReq]
    /\ txn = [w \in Workers |-> NoTxn]
    /\ writer = {}
    /\ resp = NoResp
    /\ started = 0
    /\ recorded = {}
    /\ cat_input = ""
    /\ cat_result = ""
    /\ analytics \in {[NoView EXCEPT !.route = "visual_call", !.data = call] :
                         call \in VisualCalls}

\* kpi_data = process_visual_response(bot_response, table_data)
ProcessVisual ==
    /\ analytics.route = "visual_call"
    /\ analytics' = [analytics EXCEPT
                        !.route = "visual",
                        !.data = [call |-> analytics.data,
                                  result |-> process_visual_response(
                                                 analytics.data.key,
                                                 analytics.data.constructed,
                                                 analytics.data.bot_response,
                                                 analytics.data.table_data,
                                                 analytics.data.ai)]]
    /\ UNCHANGED <<chat_sessions, chat_messages, user_actions, now, session, next_uuid,
                   pc, req, txn, writer, resp, started, recorded, cat_input, cat_result>>

NextVisual == ProcessVisual

SpecVisual == InitVisual /\ [][NextVisual]_vars

(***************************************************************************)
(* Properties of the store and the routes (checked under Spec)             *)
(***************************************************************************)
RowsOf(rows, sid) == {i \in DOMAIN rows : rows[i].session_id = sid}

Last(rows) == rows[Len(rows)]

\* handler w commits its log_chat_message in this step
Records(w) == pc[w] = "log_message" /\ pc'[w] = "log_action"

\* handler w's log_chat_message raises in this step
RecordFails(w) == pc[w] = "log_message" /\ pc'[w] = "idle"

\* C1: whatever the interleaving of log_chat_message calls, two of them racing
\* on the same new session_id included, chat_sessions holds exactly one row
\* for every session_id recorded and never two rows for one id, and no call
\* ends in the UNIQUE constraint's IntegrityError.
C1_OneSessionRow ==
    /\ \A sid \in recorded : Cardinality(RowsOf(chat_sessions, sid)) = 1
    /\ \A i, j \in DOMAIN chat_sessions :
          chat_sessions[i].session_id = chat_sessions[j].session_id => i = j
    /\ resp.error # "IntegrityError"

\* the second of two calls that both found the session_id new has committed
C1_Witness ==
    \E w \in Workers :
        /\ pc[w] = "log_action"
        /\ req[w].raced
        /\ req[w].session_id \in recorded
        /\ Cardinality(RowsOf(chat_messages, req[w].session_id)) = 2

\* C2: a log_chat_message call is atomic.  While it is between its two
\* inserts no other connection sees its session row; the session row appears
\* only in the step that appends the message; and when the message insert
\* fails the store is left as it was (no session row of the call persists),
\* the route answers 500 with the error and the request is over.
C2_Atomic ==
    /\ [](\A w \in Workers :
            (pc[w] = "log_message" /\ req[w].sid_new /\ ~req[w].raced)
                => ~HasSession(chat_sessions, req[w].session_id))
    /\ [][/\ chat_sessions' # chat_sessions =>
                \E w \in Workers :
                    /\ Records(w)
                    /\ chat_sessions' =
                          Append(chat_sessions, SessionRow(req[w].session_id, now))
                    /\ Len(chat_messages') = Len(chat_messages) + 1
          /\ \A w \in Workers :
                Records(w) =>
                    /\ HasSession(chat_sessions', req[w].session_id)
                    /\ Last(chat_messages').session_id = req[w].session_id
          /\ \A w \in Workers :
                RecordFails(w) =>
                    /\ store' = store
                    /\ (req[w].sid_new /\ ~req[w].raced)
                          => ~HasSession(chat_sessions', req[w].session_id)
                    /\ resp'.route = "chat"
                    /\ resp'.status = 500
                    /\ resp'.error # ""
                    /\ req'[w] = NoReq
         ]_vars

\* a message insert has failed after the session insert and nothing is stored
C2_Witness ==
    /\ resp.route = "chat"
    /\ resp.status = 500
    /\ resp.error = "AttributeError"
    /\ chat_sessions = <<>>
    /\ chat_messages = <<>>

\* C3: every row of chat_messages has a chat_sessions row with its session_id.
C3_MessageHasSession ==
    \A i \in DOMAIN chat_messages : HasSession(chat_sessions, chat_messages[i].session_id)

\* messages of two sessions are stored, after a clear that deleted some
C3_Witness ==
    /\ Len(chat_messages) >= 1
    /\ \E sid \in recorded : RowsOf(chat_messages, sid) = {}
    /\ \E sid \in recorded : RowsOf(chat_messages, sid) # {}

\* C4: a clear_chat that reaches the store deletes exactly the chat_messages
\* rows of its session_id (the others stay, in order), leaves chat_sessions
\* and user_actions alone and answers success, also when there was nothing
\* to delete; a clear_chat that does not answer success changes nothing.
C4_ClearFrame ==
    [][resp'.route = "clear" =>
          LET sid == resp'.session_id
              Other(row) == row.session_id # sid
          IN  /\ chat_sessions' = chat_sessions
              /\ user_actions' = user_actions
              /\ (sid # "" /\ writer = {}) => (resp'.status = 200 /\ resp'.error = "")
              /\ resp'.status = 200 =>
                    /\ chat_messages' = SelectSeq(chat_messages, Other)
                    /\ resp'.deleted = Cardinality(RowsOf(chat_messages, sid))
                    /\ RowsOf(chat_messages, sid) = {} => chat_messages' = chat_messages
              /\ resp'.status # 200 => chat_messages' = chat_messages
      ]_vars

\* a clear has deleted messages of its session and left another session's
C4_Witness ==
    /\ resp.route = "clear"
    /\ resp.status = 200
    /\ resp.deleted >= 1
    /\ Len(chat_messages) >= 1
    /\ HasSession(chat_sessions, resp.session_id)

\* C5: a log_chat_message that succeeds appends exactly one chat_messages row,
\* so total_queries grows by one; the row carries the call's session_id and
\* texts, query_category is the category of user_message ("check stock levels"
\* inventory, "" general), has_requisition_offer holds iff bot_response contains
\* "Would you like me to create purchase requisitions", requisition_created
\* iff it contains "Requisition Created".
C5_RecordAppendsOne ==
    [][\A w \in Workers :
          Records(w) =>
              LET r == req[w]
                  row == Last(chat_messages')
              IN  /\ chat_messages' = Append(chat_messages, row)
                  /\ total_queries(chat_messages') = total_queries(chat_messages) + 1
                  /\ row.session_id = r.session_id
                  /\ row.user_message = r.user_message.text
                  /\ row.bot_response = r.bot_response.text
                  /\ row.query_category = categorize_query(row.user_message)
                  /\ row.user_message = "check stock levels" => row.query_category = "inventory"
                  /\ row.user_message = "" => row.query_category = "general"
                  /\ row.has_requisition_offer <=>
                        Contains(row.bot_response,
                                 "Would you like me to create purchase requisitions")
                  /\ row.requisition_created <=>
                        Contains(row.bot_response, "Requisition Created")
      ]_vars

\* the exchange of the specification's example is stored
C5_Witness ==
    /\ chat_messages # <<>>
    /\ Last(chat_messages).user_message = "check stock levels"
    /\ Last(chat_messages).query_category = "inventory"
    /\ Last(chat_messages).has_requisition_offer
    /\ ~Last(chat_messages).requisition_created
    /\ total_queries(chat_messages) = 2

\* C6: total_requisitions is always the number of stored rows whose
\* bot_response contains "Requisition Created"; a successful log_chat_message
\* raises it by one when its bot_response contains that text and leaves it
\* unchanged otherwise.
C6_TotalRequisitions ==
    /\ [](total_requisitions(chat_messages) =
            Cardinality({i \in DOMAIN chat_messages :
                            Contains(chat_messages[i].bot_response, "Requisition Created")}))
    /\ [][\A w \in Workers :
            Records(w) =>
                total_requisitions(chat_messages') =
                    total_requisitions(chat_messages)
                    + (IF Contains(req[w].bot_response.text, "Requisition Created")
                       THEN 1 ELSE 0)
         ]_vars

\* one stored exchange created a requisition, another only offered one
C6_Witness ==
    /\ total_requisitions(chat_messages) = 1
    /\ Len(chat_messages) = 2
    /\ \E i \in DOMAIN chat_messages : chat_messages[i].has_requisition_offer

\* C10 as stated: an exchange without a session_id in the session, or whose
\* message is missing or empty, writes nothing to the store.
C10_Original ==
    \A w \in Workers : (req[w].route = "chat" /\ req[w].invalid) => req[w].writes = 0

\* C10 as amended: such an exchange is not rejected.  A fresh uuid stands in
\* for the missing session_id and "" for the missing message, the webhook is
\* called, nothing is written before it has answered, and then the exchange
\* is recorded like any other: the session row if absent, one chat_messages
\* row (user_message "" and category general when the message was missing or
\* empty), and a message_sent action with a 200 answer.
C10_DefaultsRecorded ==
    /\ [](\A w \in Workers :
            (req[w].route = "chat" /\ req[w].invalid) =>
                /\ req[w].session_id # ""
                /\ "session_id" \in DOMAIN req[w].cookie => req[w].user_message = Str("")
                /\ "session_id" \notin DOMAIN req[w].cookie =>
                      req[w].session_id \notin {session[b]["session_id"] :
                          b \in {c \in Browsers : "session_id" \in DOMAIN session[c]}}
                /\ pc[w] \in {"webhook", "visual", "log_session", "log_message"}
                      => req[w].writes = 0)
    /\ [][\A w \in Workers :
            (req[w].route = "chat" /\ req[w].invalid) =>
                /\ Records(w) =>
                      /\ Last(chat_messages').session_id = req[w].session_id
                      /\ HasSession(chat_sessions', req[w].session_id)
                      /\ req[w].user_message = Str("") =>
                            /\ Last(chat_messages').user_message = ""
                            /\ Last(chat_messages').query_category = "general"
                /\ RecordFails(w) => resp'.error \in {"OperationalError", "AttributeError"}
                /\ (pc[w] = "log_action" /\ pc'[w] = "idle" /\ resp'.error = "") =>
                      /\ resp'.status = 200
                      /\ user_actions' =
                            Append(user_actions,
                                   ActionRow(req[w].session_id, "message_sent",
                                             req[w].action_details, now))
         ]_vars

\* an exchange with neither a session_id nor a message has been recorded
C10_Witness ==
    \E w \in Workers :
        /\ pc[w] = "log_action"
        /\ req[w].invalid
        /\ "session_id" \notin DOMAIN req[w].cookie
        /\ req[w].user_message = Str("")
        /\ req[w].writes = 1
        /\ Last(chat_messages).session_id = req[w].session_id
        /\ Last(chat_messages).user_message = ""
        /\ HasSession(chat_sessions, req[w].session_id)

\* C13: log_user_action appends exactly one user_actions row, with the
\* session_id it was given ("anonymous" and ids without a chat_sessions row
\* included), and changes neither chat_sessions nor chat_messages; no step of
\* any route removes or alters a stored user_actions row.
C13_ActionsOnlyGrow ==
    [][/\ \A w \in Workers :
            (pc[w] = "log_action" /\ pc'[w] = "idle" /\ resp'.error = "") =>
                /\ user_actions' =
                      Append(user_actions,
                             ActionRow(req[w].session_id, req[w].action_type,
                                       req[w].action_details, now))
                /\ chat_sessions' = chat_sessions
                /\ chat_messages' = chat_messages
       /\ user_actions' # user_actions =>
            \E w \in Workers : pc[w] = "log_action" /\ pc'[w] = "idle" /\ resp'.error = ""
       /\ Len(user_actions') >= Len(user_actions)
       /\ SubSeq(user_actions', 1, Len(user_actions)) = user_actions
      ]_vars

\* actions of "anonymous" and of a fresh uuid are stored without any session
\* row, and still there after a chat and its message_sent action
C13_Witness ==
    /\ Len(user_actions) = 3
    /\ user_actions[1].session_id = "anonymous"
    /\ user_actions[2].action_type = "user_login"
    /\ user_actions[3].action_type = "message_sent"
    /\ ~HasSession(chat_sessions, "anonymous")
    /\ ~HasSession(chat_sessions, user_actions[2].session_id)
    /\ Len(chat_messages) = 1

\* C14: in the chat flow no store transaction or lock of a request is open
\* while its webhook call or its visual processing is in progress, nothing
\* has been written by then, and the transaction of log_chat_message is over
\* before log_user_action begins: a handler holds the write lock only between
\* the two inserts of log_chat_message.
C14_NoWorkAcrossCalls ==
    \A w \in Workers :
        /\ pc[w] \in {"webhook", "visual"} =>
              /\ w \notin writer
              /\ txn[w] = NoTxn
              /\ req[w].writes = 0
        /\ pc[w] \in {"idle", "log_session", "log_action"} =>
              /\ w \notin writer
              /\ txn[w] = NoTxn
        /\ w \in writer => pc[w] = "log_message"

\* one request is in its visual processing while another is inside
\* log_chat_message
C14_Witness ==
    \E w, v \in Workers :
        /\ pc[w] = "visual"
        /\ pc[v] = "log_message"
        /\ writer = {v}

\* C17: in a chat request the message is committed only with a webhook reply
\* in hand, and the message_sent action is appended only after the request's
\* message was committed; when the webhook call raises nothing is stored and
\* the answer is an error; whatever the visual processing does, the request
\* goes on to log.
C17_ChatOrder ==
    [][\A w \in Workers :
          /\ Records(w) =>
                req[w].bot_response \in
                    {normalized_message(outcome) :
                        outcome \in {o \in WebhookOutcomes : ~o.raises}}
          /\ (req[w].route = "chat" /\ pc[w] = "log_action" /\ pc'[w] = "idle"
              /\ user_actions' # user_actions) =>
                /\ req[w].writes = 1
                /\ req[w].session_id \in recorded
                /\ Last(user_actions').action_type = "message_sent"
                /\ Last(user_actions').session_id = req[w].session_id
          /\ (pc[w] \in {"webhook", "visual", "log_session", "log_message"}
              /\ pc'[w] # pc[w])
                => user_actions' = user_actions
          /\ (pc[w] = "webhook" /\ pc'[w] = "idle") =>
                /\ store' = store
                /\ resp'.route = "chat"
                /\ resp'.status = 500
                /\ resp'.error = "WebhookError"
          /\ (pc[w] = "visual" /\ pc'[w] # "visual") => pc'[w] = "log_session"
      ]_vars

\* a chat request has gone through log_chat_message and log_user_action
C17_Witness ==
    /\ resp.route = "chat"
    /\ resp.status = 200
    /\ Len(chat_messages) = 1
    /\ user_actions # <<>>
    /\ Last(user_actions).action_type = "message_sent"
    /\ Last(user_actions).session_id = chat_messages[1].session_id
    /\ started = MaxRequests

\* C18: only requests whose session holds 'user' append to or delete from
\* chat_messages or add a session row; a request for chat, clear_chat or the
\* index page without it is redirected and changes nothing; the only row a
\* request that came without 'user' adds to the store is the failed_login or
\* user_login row of the login route.
C18_LoginRequired ==
    [][/\ \A w \in Workers :
            (pc'[w] # "idle" /\ req'[w].route = "chat") => "user" \in DOMAIN req'[w].cookie
       /\ (chat_messages' # chat_messages \/ chat_sessions' # chat_sessions) =>
            \/ \E w \in Workers : Records(w) /\ "user" \in DOMAIN req[w].cookie
            \/ /\ resp'.route = "clear"
               /\ chat_sessions' = chat_sessions
               /\ \A b \in Browsers : "user" \in DOMAIN session[b]
       /\ user_actions' # user_actions =>
            \E w \in Workers :
                /\ pc[w] = "log_action" /\ pc'[w] = "idle"
                /\ \/ req[w].route = "chat" /\ "user" \in DOMAIN req[w].cookie
                   \/ /\ req[w].route = "login"
                      /\ Last(user_actions').action_type \in {"failed_login", "user_login"}
       /\ (resp'.route \in ProtectedRoutes /\ resp'.status = 302) => store' = store
       /\ (resp'.route \in {"clear", "index"} /\ resp'.status # 302) =>
            \A b \in Browsers : "user" \in DOMAIN session[b]
       /\ (resp'.route \in {"clear", "index"}
           /\ \A b \in Browsers : "user" \notin DOMAIN session[b]) =>
            resp'.status = 302
      ]_vars

\* a clear_chat without login was redirected; only a failed login is stored
C18_Witness ==
    /\ resp.route = "clear"
    /\ resp.status = 302
    /\ \A b \in Browsers : "user" \notin DOMAIN session[b]
    /\ Len(user_actions) = 1
    /\ user_actions[1].action_type = "failed_login"
    /\ chat_messages = <<>>

(***************************************************************************)
(* Properties of the analytics routes                                      *)
(***************************************************************************)
StoredTexts == {chat_messages[i].user_message : i \in DOMAIN chat_messages}

TimesStored(text) ==
    Cardinality({i \in DOMAIN chat_messages : chat_messages[i].user_message = text})

\* a text as the list shows it
Shown(text) ==
    IF Len(text) <= 100 THEN text ELSE SubSeq(text, 1, 100) \o "..."

\* C11: top_queries returns at most 10 entries (10, or all the distinct texts
\* if fewer), each for a distinct stored user_message with the number of rows
\* holding exactly that text, in non-increasing order of count, no text left
\* out having a larger count than one returned; a text of more than 100
\* characters is shown as its first 100 characters and "...", any other as it
\* is.
C11_TopQueries ==
    analytics.route = "top_queries" =>
        LET data == analytics.data IN
        /\ Len(data) <= 10
        /\ Len(data) = Min(10, Cardinality(StoredTexts))
        /\ \A i \in DOMAIN data :
              \E text \in StoredTexts :
                  /\ data[i].query = Shown(text)
                  /\ data[i].count = TimesStored(text)
        /\ \A i, j \in DOMAIN data : data[i].query = data[j].query => i = j
        /\ \A i, j \in DOMAIN data : i < j => data[i].count >= data[j].count
        /\ \A text \in StoredTexts :
              (\A i \in DOMAIN data : data[i].query # Shown(text))
                  => \A i \in DOMAIN data : data[i].count >= TimesStored(text)

\* eleven distinct texts are stored, ten are returned, the most frequent first;
\* a text of 100 characters is among them as it is and a longer one cut
C11_Witness ==
    /\ analytics.route = "top_queries"
    /\ Cardinality(StoredTexts) = 11
    /\ Len(analytics.data) = 10
    /\ analytics.data[1].count = 2
    /\ analytics.data[10].count = 1
    /\ \E i \in DOMAIN analytics.data : Len(analytics.data[i].query) = 100
    /\ \E i \in DOMAIN analytics.data : Len(analytics.data[i].query) = 103

\* age in hours, at the clock's present reading, of row i of chat_messages
Age(i) == now - chat_messages[i].timestamp

DailyAnswers == analytics' # analytics /\ analytics'.route = "daily_activity"

\* C12: daily_activity counts, per calendar date, exactly the chat_messages
\* rows less than 30 days old at the time of the call: a row 30 days old or
\* older adds to no count, every date returned has a positive count and lies
\* between the date 30 days ago and today, and the dates are strictly
\* ascending.
C12_DailyWindow ==
    [][DailyAnswers =>
          LET data == analytics'.data
              Recent == {i \in DOMAIN chat_messages : Age(i) < 30 * 24}
          IN  /\ \A k \in DOMAIN data :
                    /\ data[k].count =
                          Cardinality({i \in Recent :
                                          DATE(chat_messages[i].timestamp) = data[k].date})
                    /\ data[k].count > 0
                    /\ DATE(now - 30 * 24) <= data[k].date
                    /\ data[k].date <= DATE(now)
              /\ \A j, k \in DOMAIN data : j < k => data[j].date < data[k].date
              /\ \A i \in Recent :
                    \E k \in DOMAIN data : data[k].date = DATE(chat_messages[i].timestamp)
      ]_vars

\* of two rows of the same date, one exactly 30 days old, only the other counts
C12_Witness ==
    /\ analytics.route = "daily_activity"
    /\ analytics.at = 0
    /\ now = 0
    /\ Len(chat_messages) = 2
    /\ chat_messages[1].timestamp = -720
    /\ chat_messages[2].timestamp = -719
    /\ analytics.data = <<[date |-> -30, count |-> 1]>>

OverviewAnswers ==
    analytics.route = "overview" /\ analytics.step = 3 /\ analytics'.step = 0

\* C15: the active_sessions an overview answers is the number of distinct
\* session ids among the chat_messages rows less than 24 hours old when it is
\* computed: a session is counted once however many recent rows it has, and
\* not at all when its rows are older or cleared or it has user_actions only.
C15_ActiveSessions ==
    [][OverviewAnswers =>
          LET sids == {"s1", "s2", "s3", "anonymous"}
              Active(sid) ==
                  \E i \in DOMAIN chat_messages :
                      chat_messages[i].session_id = sid /\ Age(i) < 24
          IN  /\ \A i \in DOMAIN chat_messages : chat_messages[i].session_id \in sids
              /\ analytics'.stats.active_sessions =
                    Cardinality({sid \in sids : Active(sid)})
      ]_vars

\* "s1" has two recent rows, "s2" one that is 24 hours old, "s3" none, and
\* "anonymous" only a user action: one active session
C15_Witness ==
    /\ analytics.route = "overview"
    /\ analytics.step = 0
    /\ analytics.at = 0
    /\ now = 0
    /\ analytics.stats.total_queries = 3
    /\ analytics.stats.active_sessions = 1
    /\ Len(chat_messages) = 3
    /\ chat_messages[1].session_id = "s2" /\ chat_messages[1].timestamp = -24
    /\ chat_messages[2].session_id = "s1" /\ chat_messages[2].timestamp = -1
    /\ chat_messages[3].session_id = "s1" /\ chat_messages[3].timestamp = 0
    /\ HasSession(chat_sessions, "s3")
    /\ user_actions[1].session_id = "anonymous"

\* C19: in every answer of overview, queries_today > 0 implies
\* active_sessions >= 1, queries_today <= total_queries and
\* total_requisitions <= total_queries; and active_sessions is at most the
\* number of chat_sessions rows.
C19_Snapshot ==
    (analytics.route = "overview" /\ analytics.step = 0) =>
        /\ analytics.stats.queries_today > 0 => analytics.stats.active_sessions >= 1
        /\ analytics.stats.queries_today <= analytics.stats.total_queries
        /\ analytics.stats.total_requisitions <= analytics.stats.total_queries
        /\ analytics.stats.active_sessions <= Len(chat_sessions)

(***************************************************************************)
(* Properties of process_visual_response (checked under SpecVisual)        *)
(***************************************************************************)
VisualCall == analytics.data.call
VisualResult == analytics.data.result

\* C16: process_visual_response returns on every path (the API key missing,
\* the call of the model raising, a reply that is not JSON, a reply that is
\* JSON of an unexpected shape) a payload that has all of the sections kpis,
\* summary, recommendations, alerts, charts, trends and decision_support,
\* and no exception leaves it.
C16_CompletePayload ==
    analytics.route = "visual" =>
        /\ ~VisualResult.raised
        /\ required_sections \subseteq DOMAIN VisualResult.value

\* the key is set, the reply is a JSON object without 'trends' and
\* 'decision_support', and the payload built from the reply has been returned
C16_Witness ==
    /\ analytics.route = "visual"
    /\ VisualCall.key /\ VisualCall.constructed
    /\ VisualCall.ai.outcome = "json"
    /\ VisualCall.ai.json.type = "dict"
    /\ DOMAIN VisualCall.ai.json.items = {"kpis", "summary", "charts"}
    /\ ~VisualResult.raised
    /\ VisualResult.value["summary"] = "any"
    /\ required_sections \subseteq DOMAIN VisualResult.value

(***************************************************************************)
(* Properties of the categorizer (checked under SpecCat)                   *)
(***************************************************************************)
\* the keyword lists as the specification gives them
ListedInventory == {"inventory", "stock", "low stock", "reorder", "shortage", "order"}
ListedPurchase == {"purchase", "buy", "supplier", "vendor", "requisition"}
ListedReporting == {"report", "analytics", "data", "show", "list"}

UpperOf(c) ==
    IF \E j \in 1..Len(LowerChars) : SubSeq(LowerChars, j, j) = c
    THEN LET j == CHOOSE k \in 1..Len(LowerChars) : SubSeq(LowerChars, k, k) = c
         IN  SubSeq(UpperChars, j, j)
    ELSE c

\* word occurs in text at some position, each letter in either case
OccursInAnyCase(text, word) ==
    \E i \in 0..(Len(text) - Len(word)) :
        \A k \in 1..Len(word) :
            LET c == SubSeq(text, i + k, i + k)
                l == SubSeq(word, k, k)
            IN  c = l \/ c = UpperOf(l)

Listed(keywords, text) == \E keyword \in keywords : Contains(Lower(text), keyword)

Categorized == cat_result # ""

\* C7: a message containing "inventory" or "stock", in any letter case and at
\* any position, is categorized inventory, whatever purchase or reporting
\* keywords it also contains.
C7_InventoryFirst ==
    (Categorized /\ (OccursInAnyCase(cat_input, "inventory")
                     \/ OccursInAnyCase(cat_input, "stock")))
        => cat_result = "inventory"

\* an upper-case STOCK between a purchase and a reporting keyword
C7_Witness ==
    /\ cat_result = "inventory"
    /\ cat_input = "purchaseSTOCK report"

\* C8: a message that (once lower-cased) contains a purchase keyword and no
\* inventory keyword is categorized purchase, reporting keywords or not; and
\* "Show me the purchase report" is purchase.
C8_PurchaseBeforeReporting ==
    /\ (Categorized /\ Listed(ListedPurchase, cat_input)
                    /\ ~Listed(ListedInventory, cat_input))
          => cat_result = "purchase"
    /\ categorize_query("Show me the purchase report") = "purchase"

C8_Witness ==
    /\ cat_input = "Show me the purchase report"
    /\ Listed(ListedReporting, cat_input)
    /\ cat_result = "purchase"

\* C9: categorize_query returns one of the four categories for every message,
\* general exactly when the lower-cased message contains none of the listed
\* keywords ("" included), and leaves the store as it was.
C9_TotalAndGeneral ==
    /\ Categorized =>
          /\ cat_result \in Category
          /\ cat_result = "general" <=>
                ~Listed(ListedInventory \cup ListedPurchase \cup ListedReporting, cat_input)
          /\ store = <<<<>>, <<>>, <<>>>>
    /\ categorize_query("") = "general"

C9_Witness ==
    /\ cat_input = ""
    /\ cat_result = "general"

====
